---- MODULE Spec2Model ----
(***************************************************************************)
(* scribe: the pipeline orchestrator of src/main.rs.  main() runs three    *)
(* external stages in sequence: ffmpeg (Capture), whisper (Transcription)  *)
(* and "cb copy" (Delivery).  The model follows main() statement by        *)
(* statement (pc is the position of main), with the three child processes, *)
(* the terminal and the user as the environment.                           *)
(***************************************************************************)
EXTENDS Integers, Sequences, FiniteSets, TLC

\* ---------------------------------------------------------------- bounds
\* Longest standard output of whisper that is enumerated.
MaxLen == 2
\* Most key presses the user makes during one session.
MaxKeys == 2

\* The bytes whisper's output is drawn from: an ASCII letter, the lead and
\* the continuation byte of a two-byte sequence, and a byte that is never
\* valid in UTF-8.
ByteSample == {65, 195, 169, 255}

\* Exit codes and terminating signals a stage may report.
SIGINT == 2
SIGKILL == 9
CaptureCodes == {0, 1, 130, 255}
StageCodes == {0, 1}

\* --------------------------------------------------- std::process::ExitStatus
NoStatus == [kind |-> "none", val |-> 0]
Exited(c) == [kind |-> "code", val |-> c]
Signaled(s) == [kind |-> "signal", val |-> s]

\* ExitStatus::code(): Some(code) for a normal exit, None when the child
\* was terminated by a signal.
HasCode(st) == st.kind = "code"

\* ExitStatus::success()
Success(st) == st.kind = "code" /\ st.val = 0

\* ------------------------------------------------------- String::from_utf8
Cont(b) == b >= 128 /\ b <= 191

\* Length of the well-formed UTF-8 sequence at the head of s, 0 if none.
SeqLenAt(s) ==
  LET n == Len(s)
      b == s[1]
  IN IF b < 128 THEN 1
     ELSE IF b >= 194 /\ b <= 223
       THEN IF n >= 2 /\ Cont(s[2]) THEN 2 ELSE 0
     ELSE IF b >= 224 /\ b <= 239
       THEN IF n >= 3 /\ Cont(s[2]) /\ Cont(s[3])
               /\ (b = 224 => s[2] >= 160)
               /\ (b = 237 => s[2] <= 159)
            THEN 3 ELSE 0
     ELSE IF b >= 240 /\ b <= 244
       THEN IF n >= 4 /\ Cont(s[2]) /\ Cont(s[3]) /\ Cont(s[4])
               /\ (b = 240 => s[2] >= 144)
               /\ (b = 244 => s[2] <= 143)
            THEN 4 ELSE 0
     ELSE 0

RECURSIVE IsUtf8(_)
IsUtf8(s) ==
  IF Len(s) = 0 THEN TRUE
  ELSE LET k == SeqLenAt(s)
       IN IF k = 0 THEN FALSE
          ELSE IsUtf8(SubSeq(s, k + 1, Len(s)))

\* A lossy decoding: every byte that does not start a well-formed sequence
\* is replaced by U+FFFD (EF BF BD).
RECURSIVE Utf8Lossy(_)
Utf8Lossy(s) ==
  IF Len(s) = 0 THEN << >>
  ELSE LET k == SeqLenAt(s)
       IN IF k = 0 THEN <<239, 191, 189>> \o Utf8Lossy(Tail(s))
          ELSE SubSeq(s, 1, k) \o Utf8Lossy(SubSeq(s, k + 1, Len(s)))

FromUtf8Lossy(bytes) == [ok |-> TRUE, bytes |-> Utf8Lossy(bytes)]

\* Variant: the bytes are taken as a String without validation.
FromUtf8Unchecked(bytes) == [ok |-> TRUE, bytes |-> bytes]

\* String::from_utf8(vec): Err when vec is not valid UTF-8, otherwise a
\* String that owns vec.
FromUtf8(bytes) ==
  IF IsUtf8(bytes) THEN [ok |-> TRUE, bytes |-> bytes]
  ELSE [ok |-> FALSE, bytes |-> << >>]

\* str::as_bytes(): the UTF-8 bytes the String holds.
AsBytes(str) == str

\* All byte strings of length at most n over ByteSample.
BytesUpTo(n) == UNION {[1..k -> ByteSample] : k \in 0..n}

\* ---------------------------------------------------------- configuration
\* Option<T>: None is the empty sequence, Some(v) the sequence of v alone.
None == << >>
Some(v) == <<v>>
\* Option::or
Or(a, b) == IF a # None THEN a ELSE b
\* Option::unwrap_or / unwrap_or_else
UnwrapOr(a, d) == IF a # None THEN a[1] ELSE d

\* A volume is held in tenths: 20 is the f32 2.0.
\* impl Default for Config
DefaultConfig ==
  [device |-> Some("front:CARD=BRIO"), duration |-> Some(3600),
   volume |-> Some(20)]

\* The command lines enumerated: each override given or not.
AllArgs ==
  [device : {None, Some("hw:1")}, duration : {None, Some(10)},
   volume : {None, Some(15)}]

\* The tables a configuration file may hold: each key present or not.
FileTables ==
  [device : {None, Some("hw:2")}, duration : {None, Some(20)},
   volume : {None, Some(30)}]

\* The configuration files enumerated: no readable file, a file that is not
\* a valid Config (bad syntax or a key of the wrong type), a valid file.
AllFiles ==
  {[state |-> "missing", toml |-> [device |-> None, duration |-> None,
                                   volume |-> None]]}
    \cup [state : {"invalid", "ok"}, toml : FileTables]

\* The command lines and files the sessions of Spec start from.
SessionArgs ==
  {[device |-> None, duration |-> None, volume |-> None],
   [device |-> Some("hw:1"), duration |-> Some(10), volume |-> Some(15)]}
SessionFiles ==
  {f \in AllFiles :
     \/ f.state = "missing"
     \/ f.state = "ok" /\ f.toml.device # None /\ f.toml.duration = None
          /\ f.toml.volume # None}

\* fs::read_to_string(path).ok().and_then(|c| toml::from_str(&c).ok())
\*   .unwrap_or_default()
load_config(f) ==
  LET content == IF f.state = "missing" THEN None ELSE Some(f)
      parsed == IF content = None THEN None
                ELSE IF content[1].state = "ok" THEN Some(content[1].toml)
                ELSE None
  IN UnwrapOr(parsed, DefaultConfig)

\* Variant: the file takes precedence over the command line.
merged_config_FileFirst(a, file_config) ==
  [device |-> UnwrapOr(Or(file_config.device, a.device), "front:CARD=BRIO"),
   duration |-> UnwrapOr(Or(file_config.duration, a.duration), 3600),
   volume |-> UnwrapOr(Or(file_config.volume, a.volume), 20)]

merged_config(a, file_config) ==
  [device |-> UnwrapOr(Or(a.device, file_config.device), "front:CARD=BRIO"),
   duration |-> UnwrapOr(Or(a.duration, file_config.duration), 3600),
   volume |-> UnwrapOr(Or(a.volume, file_config.volume), 20)]

\* u64::to_string: the decimal digits, most significant first.
RECURSIVE to_string(_)
to_string(n) == IF n < 10 THEN <<n>> ELSE Append(to_string(n \div 10), n % 10)

\* The number a digit string denotes.
RECURSIVE ParseDigits(_)
ParseDigits(d) ==
  IF Len(d) = 0 THEN 0
  ELSE 10 * ParseDigits(SubSeq(d, 1, Len(d) - 1)) + d[Len(d)]

\* format!("volume={}", volume): Display of an f32 writes the integral part
\* and, only when it is not zero, the fraction.
FormatVolume(v) ==
  [int |-> to_string(v \div 10),
   frac |-> IF v % 10 = 0 THEN << >> ELSE <<v % 10>>]

\* The volume (in tenths) a formatted volume denotes.
ParseVolume(t) ==
  10 * ParseDigits(t.int) + (IF t.frac = << >> THEN 0 ELSE t.frac[1])

\* The arguments of the ffmpeg command that depend on the configuration:
\* -i <device>, -filter:a volume=<volume>, -t <duration>.
FfmpegArgs(c) ==
  [i |-> c.device, filter |-> FormatVolume(c.volume),
   t |-> to_string(c.duration)]

NoInvocation == [i |-> "", filter |-> FormatVolume(0), t |-> << >>]

\* ------------------------------------------------------------------ state
VARIABLES
  args,            \* the parsed command line: Args.device, .duration, .volume
  configFile,      \* the configuration file on disk
  invocation,      \* the arguments ffmpeg was spawned with
  pc,              \* position of main()
  reason,          \* the Err main() returned: [kind, code]
  exitCode,        \* exit code of the orchestrator process, -1 while it runs
  trace,           \* history: the steps of the pipeline main() has passed
  keysPressed,     \* key presses made by the user so far
  keysRead,        \* key presses consumed by term.read_key()
  ffmpeg,          \* Capture process: [state, status, signalled]
  ffmpegLaunches,  \* successful spawns of ffmpeg
  sigintSent,      \* SIGINTs delivered by kill()
  ffmpeg_exit,     \* the ExitStatus ffmpeg_child.wait() returned
  whisper,         \* Transcription process: [state, status, stdout]
  whisperLaunches, \* successful spawns of whisper
  whisper_output,  \* the Output that .output() returned: [status, stdout]
  transcription,   \* the String decoded from whisper_output.stdout
  cb,              \* Delivery process: [state, status, untilEof]
  cbLaunches,      \* successful spawns of cb
  cbStdinOpen,     \* the orchestrator still holds cb_child.stdin
  cbReaderOpen,    \* cb still has the read end of its stdin open
  cbStdin,         \* the bytes written to cb's standard input so far
  written,         \* bytes of the transcription that write_all has written
  cb_exit          \* the ExitStatus cb_child.wait() returned

orch == <<pc, reason, exitCode, trace>>
keys == <<keysPressed, keysRead>>
capt == <<ffmpeg, ffmpegLaunches, sigintSent, ffmpeg_exit>>
trans == <<whisper, whisperLaunches, whisper_output, transcription>>
deliv == <<cb, cbLaunches, cbStdinOpen, cbReaderOpen, cbStdin, written, cb_exit>>
conf == <<args, configFile, invocation>>
vars == <<conf, orch, keys, capt, trans, deliv>>

NoCode == -1
NoReason == [kind |-> "none", code |-> NoCode]
NoProc == [state |-> "none", status |-> NoStatus, untilEof |-> FALSE]
NoOutput == [status |-> NoStatus, stdout |-> << >>]

Start(argSet, fileSet) ==
  /\ args \in argSet
  /\ configFile \in fileSet
  /\ invocation = NoInvocation
  /\ pc = "print_starting"
  /\ reason = NoReason
  /\ exitCode = -1
  /\ trace = << >>
  /\ keysPressed = 0
  /\ keysRead = 0
  /\ ffmpeg = [state |-> "none", status |-> NoStatus, signalled |-> FALSE]
  /\ ffmpegLaunches = 0
  /\ sigintSent = 0
  /\ ffmpeg_exit = NoStatus
  /\ whisper = [state |-> "none", status |-> NoStatus, stdout |-> << >>]
  /\ whisperLaunches = 0
  /\ whisper_output = NoOutput
  /\ transcription = << >>
  /\ cb = NoProc
  /\ cbLaunches = 0
  /\ cbStdinOpen = FALSE
  /\ cbReaderOpen = FALSE
  /\ cbStdin = << >>
  /\ written = 0
  /\ cb_exit = NoStatus

Init == Start(SessionArgs, SessionFiles)

\* main() returns Err(e): the process ends with exit code 1 and e is
\* written to standard error.  The history notes a failed console write.
Fail(kind, code) ==
  /\ pc' = "failed"
  /\ reason' = [kind |-> kind, code |-> code]
  /\ exitCode' = 1
  /\ trace' = IF kind = "IoError" THEN Append(trace, "console_error")
              ELSE trace

\* What main() has achieved when it leaves a statement without an error.
Milestone ==
  [spawn_ffmpeg    |-> "capture_launched",
   read_key        |-> "key_read",
   kill            |-> "sigint_sent",
   wait_ffmpeg     |-> "capture_exited",
   validate        |-> "capture_accepted",
   spawn_whisper   |-> "transcription_launched",
   collect_whisper |-> "transcription_exited",
   check_whisper   |-> "transcription_ok",
   decode          |-> "decoded",
   spawn_cb        |-> "delivery_launched",
   write_all       |-> "transcript_written",
   wait_cb         |-> "stdin_closed",
   wait_cb_block   |-> "delivery_exited",
   check_cb        |-> "delivery_ok"]

\* main() goes on with statement p.
Goto(p) ==
  /\ pc' = p
  /\ trace' = IF pc \in DOMAIN Milestone /\ p # pc
              THEN Append(trace, Milestone[pc]) ELSE trace
  /\ UNCHANGED <<reason, exitCode>>

\* ------------------------------------------------------------ status lines
\* The status lines main() prints with print_step(..)?, and the statement
\* that follows each.
AfterPrint ==
  [print_starting     |-> "spawn_ffmpeg",
   print_recording    |-> "read_key",
   print_sigint       |-> "print_transcribing",
   print_transcribing |-> "spawn_whisper",
   print_complete     |-> "print_copying",
   print_copying      |-> "spawn_cb",
   print_copied       |-> "print_done"]

\* print_step succeeds.
print_step ==
  /\ pc \in DOMAIN AfterPrint
  /\ Goto(AfterPrint[pc])
  /\ UNCHANGED <<keys, capt, trans, deliv>>
  /\ UNCHANGED conf

\* Variant: the result of print_step is dropped and main() goes on.
print_step_err_Ignored ==
  /\ pc \in DOMAIN AfterPrint \cup {"print_done"}
  /\ pc' = IF pc = "print_done" THEN "completed" ELSE AfterPrint[pc]
  /\ exitCode' = IF pc = "print_done" THEN 0 ELSE exitCode
  /\ trace' = Append(trace, "console_error")
  /\ UNCHANGED <<reason, keys, capt, trans, deliv>>
  /\ UNCHANGED conf

\* term.clear_line() or term.write_line() fails and `?` returns the error.
print_step_err ==
  /\ pc \in DOMAIN AfterPrint \cup {"print_done"}
  /\ Fail("IoError", NoCode)
  /\ UNCHANGED <<keys, capt, trans, deliv>>
  /\ UNCHANGED conf

\* ---------------------------------------------------------------- Capture
\* Command::new("ffmpeg")...spawn()
SpawnFfmpeg ==
  /\ pc = "spawn_ffmpeg"
  /\ Goto("print_recording")
  /\ ffmpeg' = [state |-> "running", status |-> NoStatus, signalled |-> FALSE]
  /\ ffmpegLaunches' = ffmpegLaunches + 1
  /\ invocation' = FfmpegArgs(merged_config(args, load_config(configFile)))
  /\ UNCHANGED <<args, configFile, keys, sigintSent, ffmpeg_exit, trans, deliv>>

\* duration_since(UNIX_EPOCH)? or spawn()? fails.
SpawnFfmpegErr ==
  /\ pc = "spawn_ffmpeg"
  /\ \E k \in {"ClockError", "LaunchError"} : Fail(k, NoCode)
  /\ UNCHANGED <<keys, capt, trans, deliv>>
  /\ UNCHANGED conf

\* The user presses a key.
KeyPress ==
  /\ keysPressed < MaxKeys
  /\ exitCode = -1
  /\ keysPressed' = keysPressed + 1
  /\ UNCHANGED <<orch, keysRead, capt, trans, deliv>>
  /\ UNCHANGED conf

\* Variant: the wait also ends when the child has exited.
ReadKey_OrChildExit ==
  /\ pc = "read_key"
  /\ keysRead < keysPressed \/ ffmpeg.state = "zombie"
  /\ keysRead' = IF keysRead < keysPressed THEN keysRead + 1 ELSE keysRead
  /\ Goto("print_stopping")
  /\ UNCHANGED <<keysPressed, capt, trans, deliv>>
  /\ UNCHANGED conf

\* Variant: every pending key press is consumed.
ReadKey_Drain ==
  /\ pc = "read_key"
  /\ keysRead < keysPressed
  /\ keysRead' = keysPressed
  /\ Goto("print_stopping")
  /\ UNCHANGED <<keysPressed, capt, trans, deliv>>
  /\ UNCHANGED conf

\* term.read_key() returns the next key press; it blocks while there is none.
ReadKey ==
  /\ pc = "read_key"
  /\ keysRead < keysPressed
  /\ keysRead' = keysRead + 1
  /\ Goto("print_stopping")
  /\ UNCHANGED <<keysPressed, capt, trans, deliv>>
  /\ UNCHANGED conf

ReadKeyErr ==
  /\ pc = "read_key"
  /\ Fail("KeyReadError", NoCode)
  /\ UNCHANGED <<keys, capt, trans, deliv>>
  /\ UNCHANGED conf

\* term.clear_line()?; term.write_line("> Stopping recording...")?
StopMessage ==
  /\ pc = "print_stopping"
  /\ \/ Goto("kill")
     \/ Fail("IoError", NoCode)
  /\ UNCHANGED <<keys, capt, trans, deliv>>
  /\ UNCHANGED conf

\* kill(pid, SIGINT): the signal is delivered to the child if it still runs;
\* a child that has exited but is not yet waited for takes it without effect.
KillSigint ==
  /\ pc = "kill"
  /\ ffmpeg.state \in {"running", "zombie"}
  /\ Goto("wait_ffmpeg")
  /\ sigintSent' = sigintSent + 1
  /\ ffmpeg' = IF ffmpeg.state = "running"
               THEN [ffmpeg EXCEPT !.signalled = TRUE] ELSE ffmpeg
  /\ UNCHANGED <<keys, ffmpegLaunches, ffmpeg_exit, trans, deliv>>
  /\ UNCHANGED conf

KillSigintErr ==
  /\ pc = "kill"
  /\ Fail("SignalError", NoCode)
  /\ UNCHANGED <<keys, capt, trans, deliv>>
  /\ UNCHANGED conf

\* ffmpeg ends: on its own (duration elapsed, an error), on the SIGINT, or
\* killed from outside.  Termination by SIGINT needs a delivered SIGINT.
FfmpegExit ==
  /\ ffmpeg.state = "running"
  /\ \E st \in {Exited(c) : c \in CaptureCodes}
               \cup {Signaled(SIGKILL)}
               \cup (IF ffmpeg.signalled THEN {Signaled(SIGINT)} ELSE {}) :
       ffmpeg' = [ffmpeg EXCEPT !.state = "zombie", !.status = st]
  /\ UNCHANGED <<orch, keys, ffmpegLaunches, sigintSent, ffmpeg_exit, trans, deliv>>
  /\ UNCHANGED conf

\* Variant: a non-blocking wait that reports a clean exit for a child that
\* still runs.
WaitFfmpeg_NonBlocking ==
  /\ pc = "wait_ffmpeg"
  /\ ffmpeg.state \in {"running", "zombie"}
  /\ IF ffmpeg.state = "zombie"
     THEN /\ ffmpeg_exit' = ffmpeg.status
          /\ ffmpeg' = [ffmpeg EXCEPT !.state = "reaped"]
     ELSE /\ ffmpeg_exit' = Exited(0)
          /\ UNCHANGED ffmpeg
  /\ Goto("validate")
  /\ UNCHANGED <<keys, ffmpegLaunches, sigintSent, trans, deliv>>
  /\ UNCHANGED conf

\* ffmpeg_child.wait() blocks until the child has exited and reaps it.
WaitFfmpeg ==
  /\ pc = "wait_ffmpeg"
  /\ ffmpeg.state = "zombie"
  /\ ffmpeg_exit' = ffmpeg.status
  /\ ffmpeg' = [ffmpeg EXCEPT !.state = "reaped"]
  /\ Goto("validate")
  /\ UNCHANGED <<keys, ffmpegLaunches, sigintSent, trans, deliv>>
  /\ UNCHANGED conf

WaitFfmpegErr ==
  /\ pc = "wait_ffmpeg"
  /\ Fail("WaitError", NoCode)
  /\ UNCHANGED <<keys, capt, trans, deliv>>
  /\ UNCHANGED conf

\* Variant: a missing exit code is read as 0 (code().unwrap_or(0)).
CaptureVerdict_NoCodeAsZero(st) ==
  IF HasCode(st)
  THEN IF st.val = 130 \/ st.val = 255 THEN "sigint"
       ELSE IF st.val # 0 THEN "error"
       ELSE "clean"
  ELSE "clean"

\* Variant: only 130 counts as a graceful SIGINT exit.
CaptureVerdict_Only130(st) ==
  IF HasCode(st)
  THEN IF st.val = 130 THEN "sigint"
       ELSE IF st.val # 0 THEN "error"
       ELSE "clean"
  ELSE "nocode"

\* Variant: the `else if code != 0` branch is missing.
CaptureVerdict_NoErrorBranch(st) ==
  IF HasCode(st)
  THEN IF st.val = 130 \/ st.val = 255 THEN "sigint" ELSE "clean"
  ELSE "nocode"

\* The decision of lines 129-142 on the status wait() returned.
CaptureVerdict(st) ==
  IF HasCode(st)
  THEN IF st.val = 130 \/ st.val = 255 THEN "sigint"
       ELSE IF st.val # 0 THEN "error"
       ELSE "clean"
  ELSE "nocode"

ValidateCapture ==
  /\ pc = "validate"
  /\ LET v == CaptureVerdict(ffmpeg_exit)
     IN CASE v = "sigint" -> Goto("print_sigint")
          [] v = "clean"  -> Goto("print_transcribing")
          [] v = "error"  -> Fail("CaptureError", ffmpeg_exit.val)
          [] v = "nocode" -> Fail("CaptureError", NoCode)
  /\ UNCHANGED <<keys, capt, trans, deliv>>
  /\ UNCHANGED conf

\* ---------------------------------------------------------- Transcription
\* Command::new("whisper")...output(): the spawn.
SpawnWhisper ==
  /\ pc = "spawn_whisper"
  /\ Goto("collect_whisper")
  /\ whisper' = [state |-> "running", status |-> NoStatus, stdout |-> << >>]
  /\ whisperLaunches' = whisperLaunches + 1
  /\ UNCHANGED <<keys, capt, whisper_output, transcription, deliv>>
  /\ UNCHANGED conf

SpawnWhisperErr ==
  /\ pc = "spawn_whisper"
  /\ Fail("LaunchError", NoCode)
  /\ UNCHANGED <<keys, capt, trans, deliv>>
  /\ UNCHANGED conf

\* whisper ends, having written out to its standard output.
WhisperExit ==
  /\ whisper.state = "running"
  /\ \E st \in {Exited(c) : c \in StageCodes} \cup {Signaled(SIGKILL)},
        out \in BytesUpTo(MaxLen) :
       whisper' = [state |-> "zombie", status |-> st, stdout |-> out]
  /\ UNCHANGED <<orch, keys, capt, whisperLaunches, whisper_output,
                 transcription, deliv>>
  /\ UNCHANGED conf

\* .output() returns: it has read standard output to its end and waited.
CollectWhisper ==
  /\ pc = "collect_whisper"
  /\ whisper.state = "zombie"
  /\ whisper_output' = [status |-> whisper.status, stdout |-> whisper.stdout]
  /\ whisper' = [whisper EXCEPT !.state = "reaped"]
  /\ Goto("check_whisper")
  /\ UNCHANGED <<keys, capt, whisperLaunches, transcription, deliv>>
  /\ UNCHANGED conf

CollectWhisperErr ==
  /\ pc = "collect_whisper"
  /\ Fail("WaitError", NoCode)
  /\ UNCHANGED <<keys, capt, trans, deliv>>
  /\ UNCHANGED conf

\* Variant: the exit status of whisper is not looked at.
CheckWhisper_Unchecked ==
  /\ pc = "check_whisper"
  /\ Goto("decode")
  /\ UNCHANGED <<keys, capt, trans, deliv>>
  /\ UNCHANGED conf

\* if !whisper_output.status.success() { return Err(..) }
CheckWhisper ==
  /\ pc = "check_whisper"
  /\ IF Success(whisper_output.status)
     THEN Goto("decode")
     ELSE Fail("TranscriptionError", NoCode)
  /\ UNCHANGED <<keys, capt, trans, deliv>>
  /\ UNCHANGED conf

\* let transcription = String::from_utf8(whisper_output.stdout)?;
Decode ==
  /\ pc = "decode"
  /\ LET r == FromUtf8(whisper_output.stdout)
     IN IF r.ok
        THEN /\ transcription' = r.bytes
             /\ Goto("print_complete")
        ELSE /\ Fail("EncodingError", NoCode)
             /\ UNCHANGED transcription
  /\ UNCHANGED <<keys, capt, whisper, whisperLaunches, whisper_output, deliv>>
  /\ UNCHANGED conf

\* ---------------------------------------------------------------- Delivery
\* Command::new("cb").arg("copy").stdin(Stdio::piped()).spawn().  The
\* program started either reads its input to the end before it exits
\* (untilEof) or may exit at any moment.
SpawnCb ==
  /\ pc = "spawn_cb"
  /\ Goto("write_all")
  /\ \E e \in BOOLEAN :
       cb' = [state |-> "running", status |-> NoStatus, untilEof |-> e]
  /\ cbLaunches' = cbLaunches + 1
  /\ cbStdinOpen' = TRUE
  /\ cbReaderOpen' = TRUE
  /\ UNCHANGED <<keys, capt, trans, cbStdin, written, cb_exit>>
  /\ UNCHANGED conf

SpawnCbErr ==
  /\ pc = "spawn_cb"
  /\ Fail("LaunchError", NoCode)
  /\ UNCHANGED <<keys, capt, trans, deliv>>
  /\ UNCHANGED conf

\* Variant: the result of write_all is dropped.
WriteAll_ErrorIgnored ==
  /\ pc = "write_all"
  /\ LET buf == AsBytes(transcription)
     IN IF written = Len(buf)
        THEN /\ Goto("wait_cb")
             /\ UNCHANGED <<cbStdin, written>>
        ELSE IF cbReaderOpen
        THEN \E n \in 1..(Len(buf) - written) :
               /\ cbStdin' = cbStdin \o SubSeq(buf, written + 1, written + n)
               /\ written' = written + n
               /\ Goto("write_all")
        ELSE /\ Goto("wait_cb")
             /\ UNCHANGED <<cbStdin, written>>
  /\ UNCHANGED <<keys, capt, trans, cb, cbLaunches, cbStdinOpen, cbReaderOpen,
                 cb_exit>>
  /\ UNCHANGED conf

\* stdin.write_all(transcription.as_bytes()): one write() of the loop.  Each
\* write() takes at least one byte; it fails when cb no longer reads.
WriteAll ==
  /\ pc = "write_all"
  /\ LET buf == AsBytes(transcription)
     IN IF written = Len(buf)
        THEN /\ Goto("wait_cb")
             /\ UNCHANGED <<cbStdin, written>>
        ELSE IF cbReaderOpen
        THEN \E n \in 1..(Len(buf) - written) :
               /\ cbStdin' = cbStdin \o SubSeq(buf, written + 1, written + n)
               /\ written' = written + n
               /\ Goto("write_all")
        ELSE /\ Fail("DeliveryWriteError", NoCode)
             /\ UNCHANGED <<cbStdin, written>>
  /\ UNCHANGED <<keys, capt, trans, cb, cbLaunches, cbStdinOpen, cbReaderOpen,
                 cb_exit>>
  /\ UNCHANGED conf

\* cb closes its standard input before it has read everything.
CbCloseStdin ==
  /\ cb.state = "running"
  /\ ~cb.untilEof
  /\ cbReaderOpen
  /\ cbReaderOpen' = FALSE
  /\ UNCHANGED <<orch, keys, capt, trans, cb, cbLaunches, cbStdinOpen, cbStdin,
                 written, cb_exit>>
  /\ UNCHANGED conf

\* cb sees the end of its input: every write end of the pipe is closed,
\* by main() or by the end of the orchestrator process.
CbEof == ~cbStdinOpen \/ exitCode # -1

\* cb ends: killed, or on its own, which a cb that reads to the end of its
\* input does only once it has seen that end.
CbExit ==
  /\ cb.state = "running"
  /\ \E st \in {Exited(c) : c \in StageCodes} \cup {Signaled(SIGKILL)} :
       /\ (cb.untilEof /\ ~CbEof) => st = Signaled(SIGKILL)
       /\ cb' = [cb EXCEPT !.state = "zombie", !.status = st]
  /\ cbReaderOpen' = FALSE
  /\ UNCHANGED <<orch, keys, capt, trans, cbLaunches, cbStdinOpen, cbStdin,
                 written, cb_exit>>
  /\ UNCHANGED conf

\* Variant: the stdin handle is kept open across the wait.
WaitCbClose_KeepOpen ==
  /\ pc = "wait_cb"
  /\ Goto("wait_cb_block")
  /\ UNCHANGED <<keys, capt, trans, deliv>>
  /\ UNCHANGED conf

\* cb_child.wait(): Child::wait first drops the child's stdin handle ...
WaitCbClose ==
  /\ pc = "wait_cb"
  /\ cbStdinOpen' = FALSE
  /\ Goto("wait_cb_block")
  /\ UNCHANGED <<keys, capt, trans, cb, cbLaunches, cbReaderOpen, cbStdin,
                 written, cb_exit>>
  /\ UNCHANGED conf

\* ... and then blocks until the child has exited.
WaitCb ==
  /\ pc = "wait_cb_block"
  /\ cb.state = "zombie"
  /\ cb_exit' = cb.status
  /\ cb' = [cb EXCEPT !.state = "reaped"]
  /\ Goto("check_cb")
  /\ UNCHANGED <<keys, capt, trans, cbLaunches, cbStdinOpen, cbReaderOpen,
                 cbStdin, written>>
  /\ UNCHANGED conf

WaitCbErr ==
  /\ pc = "wait_cb_block"
  /\ Fail("WaitError", NoCode)
  /\ UNCHANGED <<keys, capt, trans, deliv>>
  /\ UNCHANGED conf

\* Variant: the exit status of cb is not looked at.
CheckCb_Unchecked ==
  /\ pc = "check_cb"
  /\ Goto("print_copied")
  /\ UNCHANGED <<keys, capt, trans, deliv>>
  /\ UNCHANGED conf

\* Variant: a failed copy is tried again.
CheckCb_Retry ==
  /\ pc = "check_cb"
  /\ IF Success(cb_exit)
     THEN Goto("print_copied")
     ELSE Goto("spawn_cb")
  /\ UNCHANGED <<keys, capt, trans, deliv>>
  /\ UNCHANGED conf

\* if !cb_exit.success() { return Err(..) }
CheckCb ==
  /\ pc = "check_cb"
  /\ IF Success(cb_exit)
     THEN Goto("print_copied")
     ELSE Fail("DeliveryError", NoCode)
  /\ UNCHANGED <<keys, capt, trans, deliv>>
  /\ UNCHANGED conf

\* The last status line, then Ok(()): the process ends with exit code 0.
Finish ==
  /\ pc = "print_done"
  /\ pc' = "completed"
  /\ exitCode' = 0
  /\ UNCHANGED <<reason, trace, keys, capt, trans, deliv>>
  /\ UNCHANGED conf

\* ------------------------------------------------------------ specification
Main ==
  \/ print_step \/ SpawnFfmpeg \/ ReadKey \/ StopMessage \/ KillSigint
  \/ WaitFfmpeg \/ ValidateCapture \/ SpawnWhisper \/ CollectWhisper
  \/ CheckWhisper \/ Decode \/ SpawnCb \/ WriteAll \/ WaitCbClose \/ WaitCb
  \/ CheckCb \/ Finish

MainErr ==
  \/ print_step_err \/ SpawnFfmpegErr \/ ReadKeyErr \/ KillSigintErr
  \/ WaitFfmpegErr \/ SpawnWhisperErr \/ CollectWhisperErr \/ SpawnCbErr
  \/ WaitCbErr

Environment ==
  \/ KeyPress \/ FfmpegExit \/ WhisperExit \/ CbCloseStdin \/ CbExit

Next == Main \/ MainErr \/ Environment

Spec == Init /\ [][Next]_vars

\* main() takes its next step when it can, and a running stage ends.  Nothing
\* makes the user press a key.
FairSpec ==
  /\ Spec
  /\ WF_vars(Main)
  /\ WF_vars(FfmpegExit) /\ WF_vars(WhisperExit) /\ WF_vars(CbExit)

\* The start of main() alone, from every enumerated command line and file.
ConfigInit == Start(AllArgs, AllFiles)

ConfigNext ==
  \/ pc = "print_starting" /\ print_step
  \/ pc = "print_starting" /\ print_step_err
  \/ SpawnFfmpeg
  \/ SpawnFfmpegErr

ConfigSpec == ConfigInit /\ [][ConfigNext]_vars

\* ------------------------------------------------------------- properties
Terminal == pc \in {"completed", "failed"}
AcceptedCodes == {0, 130, 255}
IsPrefix(a, b) == Len(a) <= Len(b) /\ a = SubSeq(b, 1, Len(a))
Occurred(e) == \E i \in 1..Len(trace) : trace[i] = e
Unreaped(p) == p.state \in {"running", "zombie"}

\* C1: once wait() has returned an exit code of 130, 255 or 0 for the
\* signalled Capture process, the session never fails with CaptureError and
\* goes on to launch Transcription; the only sessions with such an exit that
\* end without a Transcription launch are those in which a status line could
\* not be written or whisper could not be spawned.
C1_AcceptedExitProceeds ==
  (HasCode(ffmpeg_exit) /\ ffmpeg_exit.val \in AcceptedCodes) =>
    /\ sigintSent = 1
    /\ reason.kind # "CaptureError"
    /\ pc # "validate" => Occurred("capture_accepted")
    /\ \/ pc \in {"validate", "print_sigint", "print_transcribing",
                   "spawn_whisper"}
       \/ whisperLaunches = 1
       \/ pc = "failed" /\ reason.kind \in {"IoError", "LaunchError"}

C1_Witness ==
  /\ ffmpeg_exit = Exited(255)
  /\ whisper.state = "running"
  /\ pc = "collect_whisper"

\* C2: a Capture process that was terminated by the SIGINT itself (wait()
\* reports a signal, not an exit code) does not fail the session with
\* CaptureError.
C2_SigintTerminationAccepted ==
  ffmpeg_exit = Signaled(SIGINT) => reason.kind # "CaptureError"

\* C3: once wait() has returned an exit code c outside {0, 130, 255}, the
\* session is Failed(CaptureError) with c as soon as the status is looked at,
\* and neither Transcription nor Delivery is launched, then or later.
C3_RejectedCodeFails ==
  (HasCode(ffmpeg_exit) /\ ffmpeg_exit.val \notin AcceptedCodes
     /\ pc # "validate") =>
    /\ pc = "failed"
    /\ reason = [kind |-> "CaptureError", code |-> ffmpeg_exit.val]
    /\ exitCode = 1
    /\ whisperLaunches = 0 /\ whisper.state = "none"
    /\ cbLaunches = 0 /\ cb.state = "none"

C3_Witness ==
  /\ ffmpeg_exit = Exited(1)
  /\ pc = "failed"
  /\ reason.kind = "CaptureError"

\* C4: once .output() has returned a status of whisper that is not a zero
\* exit, the session is Failed(TranscriptionError) as soon as the status is
\* looked at; Delivery is never launched and nothing is written to it.
C4_TranscriptionFailureStops ==
  (whisper_output.status # NoStatus /\ ~Success(whisper_output.status)
     /\ pc # "check_whisper") =>
    /\ pc = "failed"
    /\ reason.kind = "TranscriptionError"
    /\ exitCode = 1
    /\ cbLaunches = 0 /\ cb.state = "none"
    /\ cbStdin = << >>

C4_Witness ==
  /\ whisper_output.status = Exited(1)
  /\ whisper_output.stdout # << >>
  /\ pc = "failed"

\* C5: the bytes written to the standard input of cb are at every moment a
\* prefix of the bytes whisper wrote to its standard output, and once
\* write_all has returned Ok they are exactly those bytes.
C5_TranscriptRelayedUnaltered ==
  cbLaunches >= 1 =>
    /\ IsPrefix(cbStdin, whisper_output.stdout)
    /\ (pc # "write_all" /\ reason.kind # "DeliveryWriteError")
         => cbStdin = whisper_output.stdout

C5_Witness ==
  /\ pc = "completed"
  /\ whisper_output.stdout = <<195, 169>>
  /\ cbStdin = <<195, 169>>

\* C6: the process exits with 0 exactly when main() reached Ok(()), and
\* then, in this order: Capture was launched, signalled, awaited and its
\* exit code accepted, Transcription was launched and exited zero, its
\* output decoded, Delivery was launched, the whole transcript written, its
\* input closed, and Delivery exited zero.  A failed session exits with a
\* non-zero code.
C6_SuccessOnlyAfterAllStages ==
  /\ exitCode = 0 <=> pc = "completed"
  /\ pc = "failed" => exitCode > 0 /\ reason.kind # "none"
  /\ pc = "completed" =>
       /\ trace = <<"capture_launched", "key_read", "sigint_sent",
                    "capture_exited", "capture_accepted",
                    "transcription_launched", "transcription_exited",
                    "transcription_ok", "decoded", "delivery_launched",
                    "transcript_written", "stdin_closed", "delivery_exited",
                    "delivery_ok">>
       /\ HasCode(ffmpeg_exit) /\ ffmpeg_exit.val \in AcceptedCodes
       /\ whisper_output.status = Exited(0)
       /\ IsUtf8(whisper_output.stdout)
       /\ cbStdin = whisper_output.stdout
       /\ cb_exit = Exited(0)
       /\ reason = NoReason

C6_Witness ==
  /\ pc = "completed"
  /\ exitCode = 0
  /\ ffmpeg_exit = Exited(130)
  /\ cbStdin = <<65, 65>>

\* C7: a session that has ended after Capture exited with an accepted code,
\* Transcription exited 0 with valid UTF-8, the whole transcript was written
\* to Delivery and Delivery exited 0, has ended in Completed, with Delivery
\* holding exactly the transcript.
C7_HappyPathCompletes ==
  (/\ Terminal
   /\ HasCode(ffmpeg_exit) /\ ffmpeg_exit.val \in AcceptedCodes
   /\ whisper_output.status = Exited(0)
   /\ IsUtf8(whisper_output.stdout)
   /\ Occurred("transcript_written")
   /\ cb_exit = Exited(0))
  => (pc = "completed" /\ cbStdin = whisper_output.stdout)

\* C8: when Capture has exited on its own while main() waits for the key
\* press and no key press is pending, main() gets past that wait: the exit
\* is detected without the cancellation event.
C8_SelfExitDetected ==
  (pc = "read_key" /\ ffmpeg.state = "zombie" /\ keysRead = keysPressed)
    ~> (pc # "read_key")

\* C9: at most one of the three stage processes exists unawaited at any
\* time; whisper is launched only after ffmpeg was awaited and its exit code
\* accepted, and cb only after whisper was awaited, had exited zero and its
\* output was decoded.
C9_NoStageOverlap ==
  /\ ~(Unreaped(ffmpeg) /\ Unreaped(whisper))
  /\ ~(Unreaped(ffmpeg) /\ Unreaped(cb))
  /\ ~(Unreaped(whisper) /\ Unreaped(cb))
  /\ whisperLaunches >= 1 =>
       /\ ffmpeg.state = "reaped"
       /\ ffmpeg_exit = ffmpeg.status
       /\ HasCode(ffmpeg_exit) /\ ffmpeg_exit.val \in AcceptedCodes
       /\ Occurred("capture_accepted")
  /\ cbLaunches >= 1 =>
       /\ whisper.state = "reaped"
       /\ whisper_output.status = Exited(0)
       /\ Occurred("decoded")
       /\ transcription = whisper_output.stdout

C9_Witness ==
  /\ cb.state = "running"
  /\ whisper.state = "reaped"
  /\ ffmpeg.state = "reaped"
  /\ pc = "write_all"

\* C10: each stage is spawned at most once and SIGINT is sent at most once;
\* once main() has returned an error, no stage is spawned, no signal is sent
\* and the outcome does not change.
C10_NoRetries ==
  /\ [](/\ ffmpegLaunches <= 1 /\ whisperLaunches <= 1 /\ cbLaunches <= 1
        /\ sigintSent <= 1)
  /\ [][pc = "failed" =>
          /\ pc' = "failed"
          /\ UNCHANGED <<reason, exitCode, ffmpegLaunches, whisperLaunches,
                         cbLaunches, sigintSent>>]_vars

C10_Witness ==
  /\ pc = "failed"
  /\ reason.kind = "DeliveryError"
  /\ ffmpegLaunches = 1 /\ whisperLaunches = 1 /\ cbLaunches = 1
  /\ sigintSent = 1

\* The statements of main() after Capture's exit was validated.
LaterStages ==
  {"print_sigint", "print_transcribing", "spawn_whisper", "collect_whisper",
   "check_whisper", "decode", "print_complete", "print_copying", "spawn_cb",
   "write_all", "wait_cb", "wait_cb_block", "check_cb", "print_copied",
   "print_done"}

\* C11: a session reads at most one key press and sends at most one SIGINT;
\* the SIGINT is sent by the kill() that follows the one read key press, to
\* the ffmpeg child only; a completed session has read exactly one key
\* press; while main() is in Transcribing or Delivering no key press is
\* read and no signal is sent, and a key press then changes nothing else.
C11_SingleShotCancellation ==
  /\ [](/\ keysRead <= 1 /\ sigintSent <= 1
        /\ sigintSent = 1 => (keysRead = 1 /\ Occurred("key_read"))
        /\ pc = "completed" => (keysRead = 1 /\ sigintSent = 1))
  /\ [][sigintSent # sigintSent' =>
          (pc = "kill" /\ Unreaped(ffmpeg)
             /\ UNCHANGED <<keys, trans, deliv>>)]_vars
  /\ [][(pc \in LaterStages) =>
          (keysRead' = keysRead /\ sigintSent' = sigintSent
             /\ (keysPressed' # keysPressed =>
                   UNCHANGED <<orch, capt, trans, deliv>>))]_vars

C11_Witness ==
  /\ pc = "completed"
  /\ keysPressed = 2
  /\ keysRead = 1
  /\ sigintSent = 1

\* What a setting must be: the command-line value if given, otherwise the
\* value of a valid configuration file if it has one, otherwise the default.
Expected(cli, key, default) ==
  IF cli # None THEN cli[1]
  ELSE IF configFile.state = "ok" /\ configFile.toml[key] # None
    THEN configFile.toml[key][1]
  ELSE default

\* C12: the device, duration and volume ffmpeg is spawned with are, each,
\* the command-line value if given, otherwise the value of the configuration
\* file if the file is readable, valid and has the key, otherwise
\* "front:CARD=BRIO", 3600 and 2.0.
C12_InvocationMatchesMergedConfig ==
  ffmpegLaunches >= 1 =>
    /\ invocation.i = Expected(args.device, "device", "front:CARD=BRIO")
    /\ ParseDigits(invocation.t) = Expected(args.duration, "duration", 3600)
    /\ ParseVolume(invocation.filter) = Expected(args.volume, "volume", 20)

C12_Witness ==
  /\ ffmpeg.state = "running"
  /\ args.device = None /\ args.duration # None /\ args.volume = None
  /\ configFile.state = "ok"
  /\ configFile.toml.device # None /\ configFile.toml.duration # None
  /\ configFile.toml.volume = None
  /\ invocation = [i |-> "hw:2", filter |-> [int |-> <<2>>, frac |-> << >>],
                   t |-> <<1, 0>>]

\* C13: main() blocks in the wait for cb only with cb's input closed and the
\* whole transcript written; a session that got cb's exit status passed, in
\* this order, launch, complete write, close, exit; and the wait for a cb
\* that exits (even one that reads to the end of its input) returns.
C13_WriteCloseThenWait ==
  /\ [](pc = "wait_cb_block" =>
          (~cbStdinOpen /\ cbStdin = AsBytes(transcription)))
  /\ [](cb_exit # NoStatus =>
          SubSeq(trace, 10, 13) = <<"delivery_launched", "transcript_written",
                                    "stdin_closed", "delivery_exited">>)
  /\ (pc = "wait_cb_block" ~> pc # "wait_cb_block")

C13_Witness ==
  /\ pc = "check_cb"
  /\ cb.untilEof
  /\ cb_exit = Exited(0)
  /\ cbStdin = <<65, 65>>

\* C14: when the session has ended, no stage process that was launched is
\* left unawaited.
C14_NoChildLeftBehind ==
  Terminal => (~Unreaped(ffmpeg) /\ ~Unreaped(whisper) /\ ~Unreaped(cb))

\* C15: once wait() has returned a status of ffmpeg without an exit code
\* that is not a termination by SIGINT, the session is Failed(CaptureError)
\* without a code as soon as the status is looked at, and whisper is never
\* launched.
C15_UnknownCaptureExitFails ==
  (ffmpeg_exit.kind = "signal" /\ ffmpeg_exit.val # SIGINT
     /\ pc # "validate") =>
    /\ pc = "failed"
    /\ reason = [kind |-> "CaptureError", code |-> NoCode]
    /\ exitCode = 1
    /\ whisperLaunches = 0 /\ whisper.state = "none"

C15_Witness ==
  /\ ffmpeg_exit = Signaled(SIGKILL)
  /\ pc = "failed"
  /\ sigintSent = 1

\* C16: once whisper has exited zero with output that is not valid UTF-8
\* and main() has tried to decode it, the session is Failed(EncodingError);
\* cb is never launched and receives nothing.
C16_UndecodableOutputFails ==
  (Success(whisper_output.status) /\ ~IsUtf8(whisper_output.stdout)
     /\ pc \notin {"check_whisper", "decode"}) =>
    /\ pc = "failed"
    /\ reason.kind = "EncodingError"
    /\ exitCode = 1
    /\ cbLaunches = 0 /\ cb.state = "none"
    /\ cbStdin = << >>

C16_Witness ==
  /\ whisper_output = [status |-> Exited(0), stdout |-> <<65, 195>>]
  /\ pc = "failed"

\* C17: a write to cb that fails ends the session at once in
\* Failed(DeliveryWriteError): cb's exit status is never looked at, whatever
\* it is, the session is not Completed, and the reason differs from the
\* DeliveryError of a non-zero exit.
C17_WriteFailureFails ==
  /\ [](reason.kind = "DeliveryWriteError" =>
          /\ pc = "failed" /\ exitCode = 1
          /\ cb_exit = NoStatus
          /\ ~Occurred("transcript_written"))
  /\ [](reason.kind = "DeliveryError" =>
          (Occurred("transcript_written") /\ cb_exit # NoStatus
             /\ ~Success(cb_exit)))
  /\ [][(pc = "write_all" /\ pc' # pc /\ ~cbReaderOpen
           /\ written < Len(AsBytes(transcription))) =>
          (pc' = "failed" /\ reason'.kind = "DeliveryWriteError")]_vars

C17_Witness ==
  /\ pc = "failed"
  /\ reason.kind = "DeliveryWriteError"
  /\ cb.state = "zombie" /\ cb.status = Exited(0)
  /\ written = 1

\* C18: a session that failed because a stage exited with an exit code
\* (Capture with a rejected code, Transcription or Delivery with a non-zero
\* code) reports a reason that carries that exit code.
C18_ReasonCarriesExitCode ==
  /\ (reason.kind = "CaptureError" /\ HasCode(ffmpeg_exit))
       => reason.code = ffmpeg_exit.val
  /\ (reason.kind = "TranscriptionError" /\ HasCode(whisper_output.status))
       => reason.code = whisper_output.status.val
  /\ (reason.kind = "DeliveryError" /\ HasCode(cb_exit))
       => reason.code = cb_exit.val

\* The statements of main() between the launch of Capture and the key press.
Recording == {"print_recording", "read_key"}

\* C19 as stated: main() leaves Recording only by consuming a key press, so
\* without one the session reaches neither Completed nor Failed.
C19_LeavesRecordingOnlyByKey ==
  [][(pc \in Recording /\ pc' \notin Recording) =>
       (keysRead' = keysRead + 1 /\ pc' # "failed")]_vars

\* C19, amended: main() goes from Recording on to Stopping only by consuming
\* a key press; the only other way out of Recording is a failed console
\* write or key read, which ends the session in Failed.  In Recording main()
\* has neither signalled nor awaited ffmpeg, whether or not it has exited.
\* Past kill() the SIGINT has been sent, whatever the state of ffmpeg was.
C19_RecordingEndsByKeyOrIoError ==
  /\ [][(pc \in Recording /\ pc' \notin Recording) =>
          \/ keysRead' = keysRead + 1 /\ pc' = "print_stopping"
          \/ /\ pc' = "failed" /\ keysRead' = keysRead
             /\ reason'.kind \in {"IoError", "KeyReadError"}]_vars
  /\ [](pc \in Recording =>
          (ffmpeg_exit = NoStatus /\ sigintSent = 0 /\ Unreaped(ffmpeg)))
  /\ [](sigintSent = 1 <=> Occurred("sigint_sent"))
  /\ [](ffmpeg_exit # NoStatus => sigintSent = 1)

C19_Witness ==
  /\ pc = "wait_ffmpeg"
  /\ sigintSent = 1
  /\ ffmpeg.state = "zombie"
  /\ ~ffmpeg.signalled

\* C20: a failed console write ends the session there and then: main() has
\* returned the io::Error, the process exits with 1 and nothing follows the
\* failed write; a session fails with an io::Error of the console only so.
C20_StatusLineFailureAborts ==
  /\ Occurred("console_error") =>
       /\ pc = "failed" /\ exitCode = 1
       /\ reason = [kind |-> "IoError", code |-> NoCode]
       /\ trace[Len(trace)] = "console_error"
  /\ reason.kind = "IoError" => Occurred("console_error")

\* A failed session after Delivery exited zero with the transcript.
C20_Witness ==
  /\ pc = "failed"
  /\ reason.kind = "IoError"
  /\ cb_exit = Exited(0)
  /\ cbStdin = <<195, 169>>

\* A failed session with Capture launched and not signalled.
C20_FailedBeforeSignal ==
  /\ pc = "failed"
  /\ reason.kind = "IoError"
  /\ ffmpeg.state = "running"
  /\ sigintSent = 0

====
